---- MODULE Spec2Model ----
(***************************************************************************)
(* Claim indexing core of lbryumx (LBRYBlockProcessor): the write-back     *)
(* caches over the claims / names / signatures / outpoint stores, the      *)
(* batched flush, the block-advance engine, the undo journal and the       *)
(* reorg rollback.                                                         *)
(*                                                                         *)
(* Representation of Python values:                                        *)
(*   None (as a claim id / cert id)  -> None (0; real ids are >= 1)        *)
(*   None (as a ClaimInfo / bytes)   -> <<>>                               *)
(*   dict                            -> function with a finite DOMAIN      *)
(*   list / tuple                    -> sequence                           *)
(*   ClaimInfo namedtuple            -> 8-tuple                            *)
(*      <<name, value, txid, nout, amount, address, height, cert_id>>      *)
(*   tx_hash + struct.pack('>I', i)  -> <<tx_hash, i>>                     *)
(***************************************************************************)
EXTENDS Integers, Sequences, FiniteSets, TLC

VARIABLES
    claim_cache,                  \* claim id -> serialized ClaimInfo | <<>>
    claims_for_name_cache,        \* name -> [claim id -> sequence number]
    claims_signed_by_cert_cache,  \* cert id -> list of claim ids
    outpoint_to_claim_id_cache,   \* <<txid, nout>> -> claim id | None
    pending_abandons,             \* ordered dict: list of <<claim id, list of outpoints>>
    claims_db,                    \* store 'claims'
    names_db,                     \* store 'names'
    signatures_db,                \* store 'signatures'
    outpoint_to_claim_id_db,      \* store 'outpoint_claim_id'
    claim_undo_db,                \* store 'claim_undo'
    height,                       \* self.height
    should_validate_signatures,   \* VALIDATE_CLAIM_SIGNATURES
    error,                        \* "none", or the exception that ended the process
    utxos,                        \* per height: the unspent claim outputs of the chain
    next_txid,                    \* the next unused transaction hash
    snapshots,                    \* per height: the stores as flushed at that height
    nops,                         \* accessor and flush calls made so far (SpecOps)
    supports,                     \* the support index: by name and by outpoint
    db_height,                    \* self.db_height: the height of the base indexer's last commit
    open_batches                  \* the write batches batched_flush_claims holds open, outermost first

vars == <<claim_cache, claims_for_name_cache, claims_signed_by_cert_cache,
          outpoint_to_claim_id_cache, pending_abandons, claims_db, names_db,
          signatures_db, outpoint_to_claim_id_db, claim_undo_db, height,
          should_validate_signatures, error, utxos, next_txid, snapshots, nops,
          supports, db_height, open_batches>>

(***************************************************************************)
(* Bounds of the model.                                                    *)
(***************************************************************************)
MaxTxid == 3      \* transactions mined over a behaviour
MaxOps == 4       \* accessor and flush calls over a behaviour of SpecOps
MaxOuts == 1      \* claim outputs of one transaction
MaxIns == 2       \* claim-script outpoints spent by one transaction

None == 0
NoInfo == <<>>
Names == {1, 2}

(***************************************************************************)
(* Python dict primitives.                                                 *)
(***************************************************************************)
DictGet(d, k, default) == IF k \in DOMAIN d THEN d[k] ELSE default

DictPut(d, k, v) == [x \in (DOMAIN d) \cup {k} |-> IF x = k THEN v ELSE d[x]]

SeqToSet(s) == {s[i] : i \in 1..Len(s)}

RemoveFirst(s, e) ==
    IF \E i \in 1..Len(s) : s[i] = e
    THEN LET i == CHOOSE i \in 1..Len(s) : s[i] = e /\ \A j \in 1..(i-1) : s[j] # e
         IN  SubSeq(s, 1, i-1) \o SubSeq(s, i+1, Len(s))
    ELSE s

MaxOf(S) == CHOOSE m \in S : \A x \in S : x <= m

\* call by value: v is evaluated once and F applied to the value
Bind(v, F(_)) == CHOOSE r \in {F(x) : x \in {v}} : TRUE

(***************************************************************************)
(* Encodings.  ClaimInfo.serialized / ClaimInfo.from_serialized: the       *)
(* fields in order, cert_id as "20 bytes or empty".  msgpack: a tagged     *)
(* byte string around the packed value.                                    *)
(***************************************************************************)
ClaimInfo(name, value, txid, nout, amount, address, h, cert_id) ==
    <<name, value, txid, nout, amount, address, h, cert_id>>

serialized(ci) ==
    <<ci[1], ci[2], ci[3], ci[4], ci[5], ci[6], ci[7],
      IF ci[8] = None THEN <<>> ELSE <<ci[8]>> >>

from_serialized(b) ==
    <<b[1], b[2], b[3], b[4], b[5], b[6], b[7],
      IF b[8] = <<>> THEN None ELSE b[8][1]>>

msgpack_dumps(v) == <<"msgpack", v>>

msgpack_loads(b) == b[2]

claim_id_hash(txid, n) == txid * 10 + n + 1

(***************************************************************************)
(* The processor's state as one value, so that a handler is a function     *)
(* from state to state.                                                    *)
(***************************************************************************)
Cur ==
    [claim_cache |-> claim_cache,
     claims_for_name_cache |-> claims_for_name_cache,
     claims_signed_by_cert_cache |-> claims_signed_by_cert_cache,
     outpoint_to_claim_id_cache |-> outpoint_to_claim_id_cache,
     pending_abandons |-> pending_abandons,
     claims_db |-> claims_db,
     names_db |-> names_db,
     signatures_db |-> signatures_db,
     outpoint_to_claim_id_db |-> outpoint_to_claim_id_db,
     error |-> error]

Raise(s, exc) == [s EXCEPT !.error = exc]

(***************************************************************************)
(* Cache accessors.                                                        *)
(***************************************************************************)
get_claim_info(s, claim_id) ==
    LET cached == DictGet(s.claim_cache, claim_id, <<>>)
        ser == IF cached # <<>> THEN cached ELSE DictGet(s.claims_db, claim_id, <<>>)
    IN  IF ser # <<>> THEN from_serialized(ser) ELSE NoInfo

put_claim_info(s, claim_id, claim_info) ==
    [s EXCEPT !.claim_cache = DictPut(@, claim_id, serialized(claim_info))]

put_claim_id_for_outpoint(s, tx_hash, tx_idx, claim_id) ==
    [s EXCEPT !.outpoint_to_claim_id_cache = DictPut(@, <<tx_hash, tx_idx>>, claim_id)]

remove_claim_id_for_outpoint(s, tx_hash, tx_idx) ==
    [s EXCEPT !.outpoint_to_claim_id_cache = DictPut(@, <<tx_hash, tx_idx>>, None)]

get_claim_id_from_outpoint(s, tx_hash, tx_idx) ==
    LET key == <<tx_hash, tx_idx>>
        cached == DictGet(s.outpoint_to_claim_id_cache, key, None)
    IN  IF cached # None THEN cached
        ELSE DictGet(s.outpoint_to_claim_id_db, key, None)

get_claims_for_name(s, name) ==
    IF name \in DOMAIN s.claims_for_name_cache
    THEN s.claims_for_name_cache[name]
    ELSE LET db_claims == DictGet(s.names_db, name, <<>>)
         IN  IF db_claims # <<>> THEN msgpack_loads(db_claims) ELSE <<>>

put_claim_for_name(self, name, claim_id) ==
    Bind(self, LAMBDA s :
        LET claims == get_claims_for_name(s, name)
            values == {claims[c] : c \in DOMAIN claims}
            top == IF values # {} THEN MaxOf(values) ELSE 0
            claims2 == IF claim_id \in DOMAIN claims THEN claims
                       ELSE DictPut(claims, claim_id, top + 1)
        IN  [s EXCEPT !.claims_for_name_cache = DictPut(@, name, claims2)])

\* remove_claim_for_name that deletes the claim and renumbers nothing
remove_claim_for_name_no_renumber(self, name, claim_id) ==
    Bind(self, LAMBDA s :
        LET claims == get_claims_for_name(s, name)
        IN  IF claim_id \notin DOMAIN claims THEN Raise(s, "KeyError")
            ELSE [s EXCEPT !.claims_for_name_cache =
                     DictPut(@, name, [c \in (DOMAIN claims) \ {claim_id} |-> claims[c]])])

remove_claim_for_name(self, name, claim_id) ==
    Bind(self, LAMBDA s :
        LET claims == get_claims_for_name(s, name)
        IN  IF claim_id \notin DOMAIN claims THEN Raise(s, "KeyError")
            ELSE LET claim_n == claims[claim_id]
                     claims2 == [c \in (DOMAIN claims) \ {claim_id} |->
                                    IF claims[c] > claim_n THEN claims[c] - 1 ELSE claims[c]]
                 IN  [s EXCEPT !.claims_for_name_cache = DictPut(@, name, claims2)])

get_signed_claim_ids_by_cert_id(s, cert_id) ==
    IF cert_id \in DOMAIN s.claims_signed_by_cert_cache
    THEN s.claims_signed_by_cert_cache[cert_id]
    ELSE LET db_claims == DictGet(s.signatures_db, cert_id, <<>>)
         IN  IF db_claims # <<>> THEN msgpack_loads(db_claims) ELSE <<>>

\* put_claim_id_signed_by_cert_id that starts from the stored list, past the cache
put_claim_id_signed_by_cert_id_from_store(self, cert_id, claim_id) ==
    Bind(self, LAMBDA s :
        LET db_claims == DictGet(s.signatures_db, cert_id, <<>>)
            certs == IF db_claims # <<>> THEN msgpack_loads(db_claims) ELSE <<>>
        IN  [s EXCEPT !.claims_signed_by_cert_cache =
                [k \in {cert_id} |-> Append(certs, claim_id)]])

put_claim_id_signed_by_cert_id(self, cert_id, claim_id) ==
    Bind(self, LAMBDA s :
        LET certs == get_signed_claim_ids_by_cert_id(s, cert_id)
        IN  [s EXCEPT !.claims_signed_by_cert_cache =
                DictPut(@, cert_id, Append(certs, claim_id))])

remove_certificate(s, cert_id) ==
    [s EXCEPT !.claims_signed_by_cert_cache = DictPut(@, cert_id, <<>>)]

\* remove_claim_from_certificate_claims that leaves the list as it is
remove_claim_from_certificate_claims_keeps(self, cert_id, claim_id) ==
    Bind(self, LAMBDA s :
        LET certs == get_signed_claim_ids_by_cert_id(s, cert_id)
        IN  [s EXCEPT !.claims_signed_by_cert_cache = DictPut(@, cert_id, certs)])

remove_claim_from_certificate_claims(self, cert_id, claim_id) ==
    Bind(self, LAMBDA s :
        LET certs == get_signed_claim_ids_by_cert_id(s, cert_id)
        IN  [s EXCEPT !.claims_signed_by_cert_cache =
                DictPut(@, cert_id, RemoveFirst(certs, claim_id))])

\* abandon_spent that replaces the queued outpoints of the claim instead of
\* appending to them
abandon_spent_overwrites(self, tx_hash, tx_idx) ==
    Bind(self, LAMBDA s :
        LET claim_id == get_claim_id_from_outpoint(s, tx_hash, tx_idx)
            pa == s.pending_abandons
        IN  IF claim_id = None THEN s
            ELSE IF \E i \in 1..Len(pa) : pa[i][1] = claim_id
            THEN [s EXCEPT !.pending_abandons =
                     [i \in 1..Len(pa) |->
                         IF pa[i][1] = claim_id
                         THEN <<claim_id, <<<<tx_hash, tx_idx>>>>>>
                         ELSE pa[i]]]
            ELSE [s EXCEPT !.pending_abandons =
                     Append(pa, <<claim_id, <<<<tx_hash, tx_idx>>>>>>)])

abandon_spent(self, tx_hash, tx_idx) ==
    Bind(self, LAMBDA s :
        LET claim_id == get_claim_id_from_outpoint(s, tx_hash, tx_idx)
            pa == s.pending_abandons
        IN  IF claim_id = None THEN s
            ELSE IF \E i \in 1..Len(pa) : pa[i][1] = claim_id
            THEN [s EXCEPT !.pending_abandons =
                     [i \in 1..Len(pa) |->
                         IF pa[i][1] = claim_id
                         THEN <<claim_id, Append(pa[i][2], <<tx_hash, tx_idx>>)>>
                         ELSE pa[i]]]
            ELSE [s EXCEPT !.pending_abandons =
                     Append(pa, <<claim_id, <<<<tx_hash, tx_idx>>>>>>)])

\* the value abandon_spent returns: the claim id of the outpoint, or None
abandon_spent_returns(s, tx_hash, tx_idx) ==
    get_claim_id_from_outpoint(s, tx_hash, tx_idx)

(***************************************************************************)
(* flush_claims: the pending abandons are applied to the caches, then      *)
(* every cache is drained into its store's batch, then the caches are      *)
(* cleared.  An exception inside the with-blocks discards every batch.     *)
(***************************************************************************)
RECURSIVE flush_abandon_outpoints(_, _)
flush_abandon_outpoints(s, outpoints) ==
    IF outpoints = <<>> THEN s
    ELSE flush_abandon_outpoints(
             put_claim_id_for_outpoint(s, Head(outpoints)[1], Head(outpoints)[2], None),
             Tail(outpoints))

\* flush_abandon that leaves the certificate entry of the abandoned claim
flush_abandon_keeps_certificate(self, claim_id, outpoints) ==
    Bind(self, LAMBDA s :
        LET claim == get_claim_info(s, claim_id)
        IN  IF claim = NoInfo THEN Raise(s, "AttributeError")
            ELSE Bind(remove_claim_for_name(s, claim[1], claim_id), LAMBDA s1 :
                 LET s2 == IF claim[8] # None
                           THEN remove_claim_from_certificate_claims(s1, claim[8], claim_id)
                           ELSE s1
                     s4 == [s2 EXCEPT !.claim_cache = DictPut(@, claim_id, <<>>)]
                 IN  IF s1.error # "none" THEN s1
                     ELSE flush_abandon_outpoints(s4, outpoints)))

flush_abandon(self, claim_id, outpoints) ==
    Bind(self, LAMBDA s :
        LET claim == get_claim_info(s, claim_id)
        IN  IF claim = NoInfo THEN Raise(s, "AttributeError")
            ELSE Bind(remove_claim_for_name(s, claim[1], claim_id), LAMBDA s1 :
                 LET s2 == IF claim[8] # None
                           THEN remove_claim_from_certificate_claims(s1, claim[8], claim_id)
                           ELSE s1
                     s3 == remove_certificate(s2, claim_id)
                     s4 == [s3 EXCEPT !.claim_cache = DictPut(@, claim_id, <<>>)]
                 IN  IF s1.error # "none" THEN s1
                     ELSE flush_abandon_outpoints(s4, outpoints)))

RECURSIVE flush_pending_abandons(_, _)
flush_pending_abandons(self, pending) ==
    Bind(self, LAMBDA s :
        IF pending = <<>> \/ s.error # "none" THEN s
        ELSE flush_pending_abandons(flush_abandon(s, Head(pending)[1], Head(pending)[2]),
                                    Tail(pending)))

\* for key, claim in self.claim_cache.items(): write_claim / delete_claim
flush_claim_cache(db, cache) ==
    LET dels == {k \in DOMAIN cache : cache[k] = <<>>}
        puts == (DOMAIN cache) \ dels
    IN  [k \in ((DOMAIN db) \ dels) \cup puts |-> IF k \in puts THEN cache[k] ELSE db[k]]

\* flush_packed_cache that writes the empty value where the code deletes the key
flush_packed_cache_writes_empty(db, cache) ==
    [k \in (DOMAIN db) \cup (DOMAIN cache) |->
        IF k \in DOMAIN cache THEN msgpack_dumps(cache[k]) ELSE db[k]]

\* for name, claims in ...: delete when empty, else write msgpack.dumps(claims)
flush_packed_cache(db, cache) ==
    LET dels == {k \in DOMAIN cache : cache[k] = <<>>}
        puts == (DOMAIN cache) \ dels
    IN  [k \in ((DOMAIN db) \ dels) \cup puts |->
            IF k \in puts THEN msgpack_dumps(cache[k]) ELSE db[k]]

\* for key, claim_id in self.outpoint_to_claim_id_cache.items()
flush_outpoint_cache(db, cache) ==
    LET dels == {k \in DOMAIN cache : cache[k] = None}
        puts == (DOMAIN cache) \ dels
    IN  [k \in ((DOMAIN db) \ dels) \cup puts |-> IF k \in puts THEN cache[k] ELSE db[k]]

flush_claims(self) ==
    Bind(self, LAMBDA s :
    Bind(flush_pending_abandons(s, s.pending_abandons), LAMBDA d :
        IF d.error # "none" THEN d
        \* a store key must be a byte string: batch.put(None, ..) raises
        ELSE IF None \in DOMAIN d.claims_signed_by_cert_cache THEN Raise(d, "TypeError")
        ELSE [d EXCEPT
                 !.claims_db = flush_claim_cache(@, d.claim_cache),
                 !.names_db = flush_packed_cache(@, d.claims_for_name_cache),
                 !.signatures_db = flush_packed_cache(@, d.claims_signed_by_cert_cache),
                 !.outpoint_to_claim_id_db = flush_outpoint_cache(@, d.outpoint_to_claim_id_cache),
                 !.claim_cache = <<>>,
                 !.claims_for_name_cache = <<>>,
                 !.claims_signed_by_cert_cache = <<>>,
                 !.outpoint_to_claim_id_cache = <<>>,
                 !.pending_abandons = <<>>]))

batched_flush_claims(s) == flush_claims(s)

\* the four stores, as a reader of the files sees them
Stores(s) == <<s.claims_db, s.names_db, s.signatures_db, s.outpoint_to_claim_id_db>>

\* the handler's result becomes the next state of the processor
Install(s) ==
    /\ claim_cache' = s.claim_cache
    /\ claims_for_name_cache' = s.claims_for_name_cache
    /\ claims_signed_by_cert_cache' = s.claims_signed_by_cert_cache
    /\ outpoint_to_claim_id_cache' = s.outpoint_to_claim_id_cache
    /\ pending_abandons' = s.pending_abandons
    /\ claims_db' = s.claims_db
    /\ names_db' = s.names_db
    /\ signatures_db' = s.signatures_db
    /\ outpoint_to_claim_id_db' = s.outpoint_to_claim_id_db
    /\ error' = s.error

(***************************************************************************)
(* Metadata extraction.  A claim's value blob is modelled by the           *)
(* certificate id its publisher signature carries (None when unsigned);    *)
(* every name is a valid URI and every signature verifies against the      *)
(* certificate it names, when that certificate is known.                   *)
(***************************************************************************)
_checksig(s, name, value, address) ==
    LET cert_id == value
    IN  IF ~should_validate_signatures THEN cert_id
        ELSE IF cert_id # None /\ get_claim_info(s, cert_id) # NoInfo THEN cert_id
        ELSE None

claim_info_from_output(s, output, txid, nout, h) ==
    LET amount == output.amount
        address == "addr"
        cert_id == _checksig(s, output.name, output.value, address)
    IN  ClaimInfo(output.name, output.value, txid, nout, amount, address, h, cert_id)

(***************************************************************************)
(* Block-advance engine.                                                   *)
(***************************************************************************)
NoInput == <<>>

\* get_update_input that takes the first input once the claim is known, whatever
\* outpoint the input spends
get_update_input_any_input(s, claim, inputs) ==
    LET claim_info == get_claim_info(s, claim.claim_id)
    IN  IF claim_info = NoInfo THEN NoInput
        ELSE IF inputs = <<>> THEN NoInput
        ELSE inputs[1]

get_update_input(s, claim, inputs) ==
    LET claim_info == get_claim_info(s, claim.claim_id)
        hits == {i \in 1..Len(inputs) :
                    inputs[i][1] = claim_info[3] /\ inputs[i][2] = claim_info[4]}
    IN  IF claim_info = NoInfo THEN NoInput
        ELSE IF hits = {} THEN NoInput
        ELSE inputs[CHOOSE i \in hits : \A j \in hits : i <= j]

\* advance_update_claim without the staged delete of the superseded outpoint
advance_update_claim_keeps_outpoint(self, output, h, txid, nout) ==
    Bind(self, LAMBDA s :
        LET claim_id == output.claim_id
            claim_info == claim_info_from_output(s, output, txid, nout, h)
            old_claim_info == get_claim_info(s, claim_id)
            s2 == IF old_claim_info[8] # None
                  THEN remove_claim_from_certificate_claims(s, old_claim_info[8], claim_id)
                  ELSE s
            s3 == IF claim_info[8] # None
                  THEN put_claim_id_signed_by_cert_id(s2, claim_info[8], claim_id)
                  ELSE s2
            s4 == put_claim_info(s3, claim_id, claim_info)
        IN  put_claim_id_for_outpoint(s4, txid, nout, claim_id))

\* advance_update_claim that takes the claim out of its name and puts it back
\* under the name of the update
advance_update_claim_requeues_name(self, output, h, txid, nout) ==
    Bind(self, LAMBDA s :
        LET claim_id == output.claim_id
            claim_info == claim_info_from_output(s, output, txid, nout, h)
            old_claim_info == get_claim_info(s, claim_id)
            s1 == put_claim_id_for_outpoint(s, old_claim_info[3], old_claim_info[4], None)
            s2 == IF old_claim_info[8] # None
                  THEN remove_claim_from_certificate_claims(s1, old_claim_info[8], claim_id)
                  ELSE s1
            s3 == IF claim_info[8] # None
                  THEN put_claim_id_signed_by_cert_id(s2, claim_info[8], claim_id)
                  ELSE s2
            s4 == put_claim_info(s3, claim_id, claim_info)
            s5 == put_claim_for_name(remove_claim_for_name(s4, old_claim_info[1], claim_id),
                                     claim_info[1], claim_id)
        IN  put_claim_id_for_outpoint(s5, txid, nout, claim_id))

\* both return the state after the call; the Python return value is the undo entry
advance_update_claim(self, output, h, txid, nout) ==
    Bind(self, LAMBDA s :
        LET claim_id == output.claim_id
            claim_info == claim_info_from_output(s, output, txid, nout, h)
            old_claim_info == get_claim_info(s, claim_id)
            s1 == put_claim_id_for_outpoint(s, old_claim_info[3], old_claim_info[4], None)
            s2 == IF old_claim_info[8] # None
                  THEN remove_claim_from_certificate_claims(s1, old_claim_info[8], claim_id)
                  ELSE s1
            s3 == IF claim_info[8] # None
                  THEN put_claim_id_signed_by_cert_id(s2, claim_info[8], claim_id)
                  ELSE s2
            s4 == put_claim_info(s3, claim_id, claim_info)
        IN  put_claim_id_for_outpoint(s4, txid, nout, claim_id))

advance_claim_name_transaction(self, output, h, txid, nout) ==
    Bind(self, LAMBDA s :
        LET claim_id == claim_id_hash(txid, nout)
            claim_info == claim_info_from_output(s, output, txid, nout, h)
            s1 == IF claim_info[8] # None
                  THEN put_claim_id_signed_by_cert_id(s, claim_info[8], claim_id)
                  ELSE s
            s2 == put_claim_info(s1, claim_id, claim_info)
            s3 == put_claim_for_name(s2, claim_info[1], claim_id)
        IN  put_claim_id_for_outpoint(s3, txid, nout, claim_id))

advance_support(s, claim_support, txid, nout, h, amount) == s

\* locals: [s, undo_info, update_inputs, h], self and the locals of advance_claim_txs
advance_output(locals, tx, index, h) ==
    Bind(locals, LAMBDA a :
        LET output == tx.outputs[index + 1]
        IN  CASE output.kind = "NameClaim" ->
                    [a EXCEPT
                        !.s = advance_claim_name_transaction(a.s, output, h, tx.txid, index),
                        !.undo_info = Append(@, <<claim_id_hash(tx.txid, index), NoInfo>>)]
              [] output.kind = "ClaimUpdate" ->
                    LET update_input == get_update_input(a.s, output, tx.inputs)
                    IN  IF update_input # NoInput
                        THEN [a EXCEPT
                                !.update_inputs = @ \cup {update_input},
                                !.s = advance_update_claim(a.s, output, h, tx.txid, index),
                                !.undo_info = Append(@, <<output.claim_id,
                                                         get_claim_info(a.s, output.claim_id)>>)]
                        ELSE a
              [] OTHER ->
                    [a EXCEPT !.s = advance_support(a.s, output, tx.txid, index, h,
                                                    output.amount)])

RECURSIVE advance_outputs(_, _, _, _)
advance_outputs(locals, tx, index, h) ==
    Bind(locals, LAMBDA a :
        IF index >= Len(tx.outputs) THEN a
        ELSE advance_outputs(advance_output(a, tx, index, h), tx, index + 1, h))

\* advance_input that does not look at the inputs consumed by updates
advance_input_ignores_updates(locals, txin) ==
    Bind(locals, LAMBDA a :
        LET abandoned_claim_id == get_claim_id_from_outpoint(a.s, txin[1], txin[2])
        IN  Bind(abandon_spent(a.s, txin[1], txin[2]), LAMBDA s1 :
                IF abandoned_claim_id # None
                THEN [a EXCEPT
                        !.s = s1,
                        !.undo_info = Append(@, <<abandoned_claim_id,
                                                 get_claim_info(s1, abandoned_claim_id)>>)]
                ELSE [a EXCEPT !.s = s1]))

advance_input(locals, txin) ==
    Bind(locals, LAMBDA a :
        IF txin \in a.update_inputs THEN a
        ELSE LET abandoned_claim_id == get_claim_id_from_outpoint(a.s, txin[1], txin[2])
             IN  Bind(abandon_spent(a.s, txin[1], txin[2]), LAMBDA s1 :
                     IF abandoned_claim_id # None
                     THEN [a EXCEPT
                             !.s = s1,
                             !.undo_info = Append(@, <<abandoned_claim_id,
                                                      get_claim_info(s1, abandoned_claim_id)>>)]
                     ELSE [a EXCEPT !.s = s1]))

RECURSIVE advance_inputs(_, _)
advance_inputs(locals, inputs) ==
    Bind(locals, LAMBDA a :
        IF inputs = <<>> THEN a
        ELSE advance_inputs(advance_input(a, Head(inputs)), Tail(inputs)))

advance_tx(locals, tx) ==
    Bind(locals, LAMBDA a :
        LET a0 == [a EXCEPT !.update_inputs = {}]
            a1 == IF Len(tx.outputs) > 0 THEN advance_outputs(a0, tx, 0, a.h) ELSE a0
        IN  advance_inputs(a1, tx.inputs))

RECURSIVE advance_txs_loop(_, _)
advance_txs_loop(locals, txs) ==
    Bind(locals, LAMBDA a :
        IF txs = <<>> THEN a
        ELSE advance_txs_loop(advance_tx(a, Head(txs)), Tail(txs)))

\* returns [s: the state after the block, undo_info: the block's undo list]
advance_claim_txs(s, txs, h) ==
    advance_txs_loop([s |-> s, undo_info |-> <<>>, update_inputs |-> {}, h |-> h], txs)

(***************************************************************************)
(* Reorg rollback.                                                         *)
(***************************************************************************)
\* backup_from_undo_info with the fourth possibility passed over in silence
backup_from_undo_info_tolerant(self, claim_id, undo_claim_info) ==
    Bind(self, LAMBDA s :
        LET current_claim_info == get_claim_info(s, claim_id)
        IN  Bind(IF current_claim_info # NoInfo /\ undo_claim_info # NoInfo
                 THEN LET r == remove_claim_id_for_outpoint(s, current_claim_info[3],
                                                            current_claim_info[4])
                      IN  IF current_claim_info[8] # None
                          THEN remove_claim_from_certificate_claims(r, current_claim_info[8],
                                                                    claim_id)
                          ELSE r
                 ELSE IF current_claim_info # NoInfo /\ undo_claim_info = NoInfo
                 THEN abandon_spent(s, current_claim_info[3], current_claim_info[4])
                 ELSE IF current_claim_info = NoInfo /\ undo_claim_info # NoInfo
                 THEN s
                 ELSE s,
                 LAMBDA s1 :
            IF s1.error # "none" \/ undo_claim_info = NoInfo THEN s1
            ELSE Bind(put_claim_info(s1, claim_id, undo_claim_info), LAMBDA s2 :
                 LET s3 == IF undo_claim_info[8] # None
                           THEN put_claim_id_signed_by_cert_id(
                                    s2,
                                    _checksig(s2, undo_claim_info[1], undo_claim_info[2],
                                              undo_claim_info[6]),
                                    claim_id)
                           ELSE s2
                     s4 == put_claim_for_name(s3, undo_claim_info[1], claim_id)
                 IN  put_claim_id_for_outpoint(s4, undo_claim_info[3], undo_claim_info[4],
                                               claim_id))))

backup_from_undo_info(self, claim_id, undo_claim_info) ==
    Bind(self, LAMBDA s :
        LET current_claim_info == get_claim_info(s, claim_id)
        IN  Bind(IF current_claim_info # NoInfo /\ undo_claim_info # NoInfo
                 THEN LET r == remove_claim_id_for_outpoint(s, current_claim_info[3],
                                                            current_claim_info[4])
                      IN  IF current_claim_info[8] # None
                          THEN remove_claim_from_certificate_claims(r, current_claim_info[8],
                                                                    claim_id)
                          ELSE r
                 ELSE IF current_claim_info # NoInfo /\ undo_claim_info = NoInfo
                 THEN abandon_spent(s, current_claim_info[3], current_claim_info[4])
                 ELSE IF current_claim_info = NoInfo /\ undo_claim_info # NoInfo
                 THEN s
                 ELSE Raise(s, "Exception"),
                 LAMBDA s1 :
            IF s1.error # "none" \/ undo_claim_info = NoInfo THEN s1
            ELSE Bind(put_claim_info(s1, claim_id, undo_claim_info), LAMBDA s2 :
                 LET s3 == IF undo_claim_info[8] # None
                           THEN put_claim_id_signed_by_cert_id(
                                    s2,
                                    _checksig(s2, undo_claim_info[1], undo_claim_info[2],
                                              undo_claim_info[6]),
                                    claim_id)
                           ELSE s2
                     s4 == put_claim_for_name(s3, undo_claim_info[1], claim_id)
                 IN  put_claim_id_for_outpoint(s4, undo_claim_info[3], undo_claim_info[4],
                                               claim_id))))

\* the loop of backup_txs without reversed(): the entries in the order stored
RECURSIVE backup_undo_loop_forward(_, _)
backup_undo_loop_forward(self, undo_info) ==
    Bind(self, LAMBDA s :
        IF undo_info = <<>> \/ s.error # "none" THEN s
        ELSE backup_undo_loop_forward(
                 backup_from_undo_info(s, Head(undo_info)[1], Head(undo_info)[2]),
                 Tail(undo_info)))

\* for claim_id, undo_claim_info in reversed(undo_info)
RECURSIVE backup_undo_loop(_, _)
backup_undo_loop(self, undo_info) ==
    Bind(self, LAMBDA s :
        IF undo_info = <<>> \/ s.error # "none" THEN s
        ELSE LET last == undo_info[Len(undo_info)]
             IN  backup_undo_loop(backup_from_undo_info(s, last[1], last[2]),
                                  SubSeq(undo_info, 1, Len(undo_info) - 1)))

\* the claim side of backup_txs at self.height = h
backup_txs(self, undo_db, h) ==
    Bind(self, LAMBDA s :
        IF h \notin DOMAIN undo_db THEN Raise(s, "TypeError")
        ELSE backup_undo_loop(s, msgpack_loads(undo_db[h])))

\* super().backup_blocks: backup_txs for each block from the tip, height -= 1
RECURSIVE backup_blocks_loop(_, _, _, _)
backup_blocks_loop(self, undo_db, h, n) ==
    Bind(self, LAMBDA s :
        IF n = 0 \/ s.error # "none" THEN s
        ELSE backup_blocks_loop(backup_txs(s, undo_db, h), undo_db, h - 1, n - 1))

backup_blocks(self, undo_db, h, n) ==
    Bind(batched_flush_claims(self), LAMBDA s1 :
        IF s1.error # "none" THEN s1
        ELSE Bind(backup_blocks_loop(s1, undo_db, h, n), LAMBDA s2 :
                 IF s2.error # "none" THEN s2
                 ELSE batched_flush_claims(s2)))

\* the number of blocks of a backup_blocks call that reached super().backup_txs
backed_up(self, undo_db, h, n) ==
    Cardinality({m \in 1..n :
        backup_blocks_loop(batched_flush_claims(self), undo_db, h, m).error = "none"})

(***************************************************************************)
(* The chain, as the daemon delivers it.  A transaction lists its claim    *)
(* outputs and the claim-script outpoints it spends.  Transaction hashes   *)
(* are never reused and an outpoint is spent at most once, so the model    *)
(* keeps, per height, the unspent outputs that carry a NameClaim or        *)
(* ClaimUpdate script, each as <<txid, nout, claim id, name>> of the       *)
(* script.  The chain accepts a ClaimUpdate output under any name; a       *)
(* chain in which every update keeps the name of the output it spends is   *)
(* the case renaming = FALSE.                                              *)
(***************************************************************************)
\* certificate ids a value blob may carry: none, or one of the first two claims named
Values == {None, claim_id_hash(1, 0), claim_id_hash(2, 0)}

Output(kind, name, value, claim_id) ==
    [kind |-> kind, name |-> name, value |-> value, claim_id |-> claim_id, amount |-> 1]

InputSeqs(utxo) ==
    {q \in UNION {[1..n -> utxo] : n \in 0..MaxIns} :
        \A i, j \in 1..Len(q) : i # j => q[i] # q[j]}

\* the outputs a transaction spending `spent` may carry
OutputsFor(spent, renaming) ==
    LET carried == {spent[i][3] : i \in 1..Len(spent)}
    IN  {Output("NameClaim", name, value, None) : name \in Names, value \in Values}
        \cup {Output("ClaimSupport", 1, None, claim_id_hash(1, 0))}
        \cup UNION {{Output("ClaimUpdate", name, value, spent[i][3]) :
                        name \in IF renaming THEN Names ELSE {spent[i][4]},
                        value \in Values} : i \in 1..Len(spent)}
        \cup {Output("ClaimUpdate", 1, None, c) : c \in {claim_id_hash(1, 0)} \ carried}

ValidTxs(utxo, txid, renaming) ==
    UNION {{[txid |-> txid, outputs |-> outputs,
             inputs |-> [i \in 1..Len(spent) |-> <<spent[i][1], spent[i][2]>>]] :
               outputs \in {o \in UNION {[1..n -> OutputsFor(spent, renaming)] : n \in 0..MaxOuts} :
                               Len(o) + Len(spent) > 0}} :
           spent \in InputSeqs(utxo)}

UtxoAfter(utxo, tx) ==
    {u \in utxo : <<u[1], u[2]>> \notin SeqToSet(tx.inputs)}
    \cup {<<tx.txid, n - 1,
            IF tx.outputs[n].kind = "NameClaim" THEN claim_id_hash(tx.txid, n - 1)
            ELSE tx.outputs[n].claim_id,
            tx.outputs[n].name>> :
          n \in {m \in 1..Len(tx.outputs) : tx.outputs[m].kind # "ClaimSupport"}}

RECURSIVE UtxoAfterAll(_, _)
UtxoAfterAll(utxo, txs) ==
    IF txs = <<>> THEN utxo ELSE UtxoAfterAll(UtxoAfter(utxo, Head(txs)), Tail(txs))

\* the blocks of 1..n transactions that may follow a chain with these unspent outputs
RECURSIVE Blocks(_, _, _, _)
Blocks(utxo, txid, n, renaming) ==
    IF n = 0 THEN {}
    ELSE UNION {{<<tx>>} \cup
                {<<tx>> \o rest :
                    rest \in Blocks(UtxoAfter(utxo, tx), txid + 1, n - 1, renaming)} :
                tx \in ValidTxs(utxo, txid, renaming)}

(***************************************************************************)
(* Spec: the block processor driven by the base indexer.                   *)
(***************************************************************************)
Init ==
    /\ claim_cache = <<>>
    /\ claims_for_name_cache = <<>>
    /\ claims_signed_by_cert_cache = <<>>
    /\ outpoint_to_claim_id_cache = <<>>
    /\ pending_abandons = <<>>
    /\ claims_db = <<>>
    /\ names_db = <<>>
    /\ signatures_db = <<>>
    /\ outpoint_to_claim_id_db = <<>>
    /\ claim_undo_db = <<>>
    /\ height = 0
    /\ should_validate_signatures \in BOOLEAN
    /\ error = "none"
    /\ utxos = <<{}>>
    /\ next_txid = 1
    /\ snapshots = << <<Stores(Cur)>> >>
    /\ nops = 0
    /\ supports = [by_name |-> <<>>, by_outpoint |-> <<>>]
    /\ db_height = 0
    /\ open_batches = <<>>

\* advance_blocks on one block (a flush the base indexer makes on the way is
\* the action Flush taken before)
AdvanceBlocks(block) ==
    /\ error = "none"
    /\ \E r \in {advance_claim_txs(Cur, block, height + 1)} :
           /\ Install(r.s)
           /\ claim_undo_db' = DictPut(claim_undo_db, height + 1, msgpack_dumps(r.undo_info))
    /\ height' = height + 1
    /\ utxos' = Append(utxos, UtxoAfterAll(utxos[height + 1], block))
    /\ next_txid' = next_txid + Len(block)
    /\ snapshots' = Append(snapshots, <<>>)
    /\ UNCHANGED <<should_validate_signatures, nops, supports, db_height, open_batches>>

\* flush: batched_flush_claims, then the base indexer's flush
Flush ==
    /\ error = "none"
    /\ \E s1 \in {batched_flush_claims(Cur)} :
           /\ Install(s1)
           /\ snapshots' = IF s1.error = "none"
                           THEN [snapshots EXCEPT ![height + 1] = <<Stores(s1)>>]
                           ELSE snapshots
           /\ db_height' = IF s1.error = "none" THEN height ELSE db_height
    /\ UNCHANGED <<claim_undo_db, height, should_validate_signatures, utxos, next_txid, nops,
                   supports,
                   open_batches>>

\* backup_blocks on the n blocks at the tip
BackupBlocks(n) ==
    /\ error = "none"
    /\ \E r \in {backup_blocks(Cur, claim_undo_db, height, n)} :
           /\ Install(r)
           /\ IF r.error = "none"
              THEN /\ height' = height - n
                   /\ utxos' = SubSeq(utxos, 1, height - n + 1)
                   /\ snapshots' = Append(SubSeq(snapshots, 1, height - n), <<Stores(r)>>)
                   /\ db_height' = height - n
              ELSE \* the blocks before the one that raised went through super().backup_txs
                   \E done \in {backed_up(Cur, claim_undo_db, height, n)} :
                       /\ height' = height - done
                       /\ utxos' = SubSeq(utxos, 1, height - done + 1)
                       /\ snapshots' = SubSeq(snapshots, 1, height - done + 1)
                       /\ UNCHANGED db_height
    /\ UNCHANGED <<claim_undo_db, should_validate_signatures, next_txid, nops, supports,
                   open_batches>>

Next ==
    \/ \E block \in Blocks(utxos[height + 1], next_txid, MaxTxid + 1 - next_txid, TRUE) :
           AdvanceBlocks(block)
    \/ Flush
    \/ \E n \in 1..height : BackupBlocks(n)

Spec == Init /\ [][Next]_vars

(***************************************************************************)
(* SpecDefault: the default configuration (VALIDATE_CLAIM_SIGNATURES off)  *)
(* on a chain whose updates keep the name of the claim they spend.         *)
(***************************************************************************)
InitDefault == Init /\ should_validate_signatures = FALSE

NextDefault ==
    \/ \E block \in Blocks(utxos[height + 1], next_txid, MaxTxid + 1 - next_txid, FALSE) :
           AdvanceBlocks(block)
    \/ Flush
    \/ \E n \in 1..height : BackupBlocks(n)

SpecDefault == InitDefault /\ [][NextDefault]_vars

(***************************************************************************)
(* SpecOps: the cache accessors called directly, as the unit tests do,     *)
(* interleaved with batched_flush_claims.                                  *)
(***************************************************************************)
OpNames == {1}
OpIds == {11, 21, 31}
OpCerts == {11, 21}
OpTxids == {1, 2}
OpInfos == {ClaimInfo(1, k, 1, 0, 1, "addr", 1, k) : k \in {None, 11}}

EnvUnchanged == UNCHANGED <<claim_undo_db, height, should_validate_signatures,
                            utxos, next_txid, snapshots, supports, db_height,
                            open_batches>>

OpStep(result) ==
    /\ error = "none"
    /\ nops < MaxOps
    /\ \E s \in {result} : Install(s)
    /\ nops' = nops + 1
    /\ EnvUnchanged

PutClaimForName(name, claim_id) ==
    OpStep(put_claim_for_name(Cur, name, claim_id))

RemoveClaimForName(name, claim_id) ==
    OpStep(remove_claim_for_name(Cur, name, claim_id))

PutClaimIdForOutpoint(tx_hash, tx_idx, claim_id) ==
    OpStep(put_claim_id_for_outpoint(Cur, tx_hash, tx_idx, claim_id))

RemoveClaimIdForOutpoint(tx_hash, tx_idx) ==
    OpStep(remove_claim_id_for_outpoint(Cur, tx_hash, tx_idx))

PutClaimIdSignedByCertId(cert_id, claim_id) ==
    OpStep(put_claim_id_signed_by_cert_id(Cur, cert_id, claim_id))

RemoveCertificate(cert_id) ==
    OpStep(remove_certificate(Cur, cert_id))

RemoveClaimFromCertificateClaims(cert_id, claim_id) ==
    OpStep(remove_claim_from_certificate_claims(Cur, cert_id, claim_id))

PutClaimInfo(claim_id, claim_info) ==
    OpStep(put_claim_info(Cur, claim_id, claim_info))

AbandonSpent(tx_hash, tx_idx) ==
    OpStep(abandon_spent(Cur, tx_hash, tx_idx))

BatchedFlushClaims ==
    /\ error = "none"
    /\ nops < MaxOps
    /\ \E s \in {batched_flush_claims(Cur)} : Install(s)
    /\ nops' = nops + 1
    /\ EnvUnchanged

InitOps ==
    /\ claim_cache = <<>>
    /\ claims_for_name_cache = <<>>
    /\ claims_signed_by_cert_cache = <<>>
    /\ outpoint_to_claim_id_cache = <<>>
    /\ pending_abandons = <<>>
    /\ claims_db = <<>>
    /\ names_db = <<>>
    /\ signatures_db = <<>>
    /\ outpoint_to_claim_id_db = <<>>
    /\ claim_undo_db = <<>>
    /\ height = 0
    /\ should_validate_signatures = FALSE
    /\ error = "none"
    /\ utxos = <<{}>>
    /\ next_txid = 1
    /\ snapshots = <<>>
    /\ nops = 0
    /\ supports = [by_name |-> <<>>, by_outpoint |-> <<>>]
    /\ db_height = 0
    /\ open_batches = <<>>

NextOps ==
    \/ \E name \in OpNames, claim_id \in OpIds : PutClaimForName(name, claim_id)
    \/ \E name \in OpNames, claim_id \in OpIds : RemoveClaimForName(name, claim_id)
    \/ \E tx_hash \in OpTxids, claim_id \in OpCerts \cup {None} :
           PutClaimIdForOutpoint(tx_hash, 0, claim_id)
    \/ \E tx_hash \in OpTxids : RemoveClaimIdForOutpoint(tx_hash, 0)
    \/ \E cert_id \in OpCerts, claim_id \in OpCerts : PutClaimIdSignedByCertId(cert_id, claim_id)
    \/ \E cert_id \in OpCerts : RemoveCertificate(cert_id)
    \/ \E cert_id \in OpCerts, claim_id \in OpCerts :
           RemoveClaimFromCertificateClaims(cert_id, claim_id)
    \/ \E claim_id \in OpCerts, claim_info \in OpInfos : PutClaimInfo(claim_id, claim_info)
    \/ \E tx_hash \in OpTxids : AbandonSpent(tx_hash, 0)
    \/ BatchedFlushClaims

SpecOps == InitOps /\ [][NextOps]_vars

(***************************************************************************)
(* SpecServing: the processor once the base indexer has caught up with the *)
(* daemon.  super().advance_blocks then ends with self.flush(True), which  *)
(* is LBRYBlockProcessor.flush: the claim caches and the base indexer      *)
(* commit, at the new height, before advance_blocks runs advance_claim_txs *)
(* on the blocks.                                                          *)
(***************************************************************************)
AdvanceBlocksCaughtUp(block) ==
    /\ error = "none"
    /\ \E s1 \in {batched_flush_claims(Cur)} :
           IF s1.error # "none"
           THEN /\ Install(s1)
                /\ UNCHANGED <<claim_undo_db, height, utxos, next_txid, snapshots, db_height>>
           ELSE /\ \E r \in {advance_claim_txs(s1, block, height + 1)} :
                       /\ Install(r.s)
                       /\ claim_undo_db' = DictPut(claim_undo_db, height + 1,
                                                   msgpack_dumps(r.undo_info))
                /\ db_height' = height + 1
                /\ height' = height + 1
                /\ utxos' = Append(utxos, UtxoAfterAll(utxos[height + 1], block))
                /\ next_txid' = next_txid + Len(block)
                /\ snapshots' = Append([snapshots EXCEPT ![height + 1] = <<Stores(s1)>>], <<>>)
    /\ UNCHANGED <<should_validate_signatures, nops, supports,
                   open_batches>>

NextServing ==
    \/ \E block \in Blocks(utxos[height + 1], next_txid, MaxTxid + 1 - next_txid, FALSE) :
           AdvanceBlocksCaughtUp(block)
    \/ Flush
    \/ \E n \in 1..height : BackupBlocks(n)

SpecServing == InitDefault /\ [][NextServing]_vars

(***************************************************************************)
(* SpecSupports: the support index.  advance_support is the handler of a   *)
(* ClaimSupport output.  put_support, remove_support_outpoint and the two  *)
(* lookups are the accessors the storage tests call; the index keeps, per  *)
(* name and claim id, the list of <<txid, nout, height, amount>> and, per  *)
(* outpoint, <<name, claim id>>.                                           *)
(***************************************************************************)
NoSupport == <<>>

get_supports_for_name(sup, name) == DictGet(sup.by_name, name, <<>>)

get_supported_claim_name_id_from_outpoint(sup, txid, nout) ==
    DictGet(sup.by_outpoint, <<txid, nout>>, NoSupport)

\* the supports listed for claim_id under name
SupportsOf(sup, name, claim_id) == DictGet(get_supports_for_name(sup, name), claim_id, <<>>)

put_support(sup, name, claim_id, txid, nout, h, amount) ==
    [by_name |-> DictPut(sup.by_name, name,
                         DictPut(get_supports_for_name(sup, name), claim_id,
                                 Append(SupportsOf(sup, name, claim_id),
                                        <<txid, nout, h, amount>>))),
     by_outpoint |-> DictPut(sup.by_outpoint, <<txid, nout>>, <<name, claim_id>>)]

remove_support_outpoint(sup, txid, nout) ==
    LET found == get_supported_claim_name_id_from_outpoint(sup, txid, nout)
    IN  IF found = NoSupport THEN sup
        ELSE LET name == found[1]
                 claim_id == found[2]
                 old == SupportsOf(sup, name, claim_id)
             IN  [by_name |-> DictPut(sup.by_name, name,
                                      DictPut(get_supports_for_name(sup, name), claim_id,
                                              SelectSeq(old, LAMBDA e :
                                                  <<e[1], e[2]>> # <<txid, nout>>))),
                  by_outpoint |-> [key \in DOMAIN sup.by_outpoint \ {<<txid, nout>>} |->
                                      sup.by_outpoint[key]]]

\* advance_claim_txs on a ClaimSupport output of transaction txid
AdvanceSupport(name, claim_id, txid, nout) ==
    OpStep(advance_support(Cur, Output("ClaimSupport", name, None, claim_id),
                           txid, nout, height + 1, 1))

PutSupport(name, claim_id, txid, nout) ==
    /\ error = "none"
    /\ nops < MaxOps
    /\ supports' = put_support(supports, name, claim_id, txid, nout, height + 1, 1)
    /\ nops' = nops + 1
    /\ Install(Cur)
    /\ UNCHANGED <<claim_undo_db, height, should_validate_signatures, utxos, next_txid,
                   snapshots, db_height, open_batches>>

RemoveSupportOutpoint(txid, nout) ==
    /\ error = "none"
    /\ nops < MaxOps
    /\ supports' = remove_support_outpoint(supports, txid, nout)
    /\ nops' = nops + 1
    /\ Install(Cur)
    /\ UNCHANGED <<claim_undo_db, height, should_validate_signatures, utxos, next_txid,
                   snapshots, db_height, open_batches>>

NextSupports ==
    \/ \E name \in Names, claim_id \in OpCerts, txid \in OpTxids :
           AdvanceSupport(name, claim_id, txid, 0)
    \/ \E name \in Names, claim_id \in OpCerts, txid \in OpTxids :
           PutSupport(name, claim_id, txid, 0)
    \/ \E txid \in OpTxids : RemoveSupportOutpoint(txid, 0)

SpecSupports == InitOps /\ [][NextSupports]_vars

(***************************************************************************)
(* SpecRestart: SpecServing with a process that can be killed and started  *)
(* again.  __init__ starts with empty caches and no pending abandons,      *)
(* open_dbs opens the five stores as they are on disk, and the base        *)
(* indexer resumes at the height it committed last.  claim_undo_db is      *)
(* written by advance_blocks after advance_claim_txs, outside any flush.   *)
(***************************************************************************)
\* the process is killed between two handlers and started again
Restart ==
    /\ error = "none"
    /\ claim_cache' = <<>>
    /\ claims_for_name_cache' = <<>>
    /\ claims_signed_by_cert_cache' = <<>>
    /\ outpoint_to_claim_id_cache' = <<>>
    /\ pending_abandons' = <<>>
    /\ height' = db_height
    /\ utxos' = SubSeq(utxos, 1, db_height + 1)
    /\ snapshots' = SubSeq(snapshots, 1, db_height + 1)
    /\ UNCHANGED <<claims_db, names_db, signatures_db, outpoint_to_claim_id_db, claim_undo_db,
                   should_validate_signatures, error, next_txid, nops, supports, db_height,
                   open_batches>>

\* the process is killed inside advance_blocks, after super().advance_blocks
\* has flushed at the new height and before the write batch of claim_undo_db
\* commits, and started again
KilledInAdvanceBlocks(block) ==
    /\ error = "none"
    /\ \E s1 \in {batched_flush_claims(Cur)} :
           /\ s1.error = "none"
           /\ Install(s1)
           /\ snapshots' = Append([snapshots EXCEPT ![height + 1] = <<Stores(s1)>>], <<>>)
    /\ db_height' = height + 1
    /\ height' = height + 1
    /\ utxos' = Append(utxos, UtxoAfterAll(utxos[height + 1], block))
    /\ next_txid' = next_txid + Len(block)
    /\ UNCHANGED <<claim_undo_db, should_validate_signatures, nops, supports,
                   open_batches>>

NextRestart ==
    \/ \E block \in Blocks(utxos[height + 1], next_txid, MaxTxid + 1 - next_txid, FALSE) :
           AdvanceBlocksCaughtUp(block)
    \/ Flush
    \/ \E n \in 1..height : BackupBlocks(n)
    \/ Restart
    \/ \E block \in Blocks(utxos[height + 1], next_txid, MaxTxid + 1 - next_txid, FALSE) :
           KilledInAdvanceBlocks(block)

SpecRestart == InitDefault /\ [][NextRestart]_vars

(***************************************************************************)
(* SpecCommit: flush with the commits of its write batches as steps.       *)
(* batched_flush_claims opens a write batch on the claims store, inside it *)
(* one on the names store, inside it one on the signatures store and       *)
(* inside it one on the outpoint store, and runs flush_claims in the       *)
(* innermost with statement.  A write batch commits when its with          *)
(* statement exits.                                                        *)
(***************************************************************************)
\* flush is called: the four with statements are entered and flush_claims has
\* filled the batches and emptied the caches
FlushEnter ==
    /\ error = "none"
    /\ open_batches = <<>>
    /\ \E s1 \in {flush_claims(Cur)} :
           /\ Install([s1 EXCEPT !.claims_db = claims_db,
                                 !.names_db = names_db,
                                 !.signatures_db = signatures_db,
                                 !.outpoint_to_claim_id_db = outpoint_to_claim_id_db])
           /\ open_batches' = IF s1.error # "none" THEN <<>>
                              ELSE <<[store |-> "claims", db |-> s1.claims_db],
                                     [store |-> "names", db |-> s1.names_db],
                                     [store |-> "signatures", db |-> s1.signatures_db],
                                     [store |-> "outpoint_claim_id",
                                      db |-> s1.outpoint_to_claim_id_db]>>
    /\ UNCHANGED <<claim_undo_db, height, should_validate_signatures, utxos, next_txid,
                   snapshots, nops, supports, db_height>>

\* the innermost open with statement exits and its batch commits; when it was
\* the outermost, batched_flush_claims returns and super().flush follows
WriteBatchExit ==
    /\ open_batches # <<>>
    /\ \E batch \in {open_batches[Len(open_batches)]} :
           /\ claims_db' = IF batch.store = "claims" THEN batch.db ELSE claims_db
           /\ names_db' = IF batch.store = "names" THEN batch.db ELSE names_db
           /\ signatures_db' = IF batch.store = "signatures" THEN batch.db ELSE signatures_db
           /\ outpoint_to_claim_id_db' = IF batch.store = "outpoint_claim_id" THEN batch.db
                                         ELSE outpoint_to_claim_id_db
    /\ open_batches' = SubSeq(open_batches, 1, Len(open_batches) - 1)
    /\ IF Len(open_batches) = 1
       THEN /\ db_height' = height
            /\ snapshots' = [snapshots EXCEPT ![height + 1] =
                                <<<<claims_db', names_db', signatures_db',
                                    outpoint_to_claim_id_db'>>>>]
       ELSE UNCHANGED <<db_height, snapshots>>
    /\ UNCHANGED <<claim_cache, claims_for_name_cache, claims_signed_by_cert_cache,
                   outpoint_to_claim_id_cache, pending_abandons, claim_undo_db, height,
                   should_validate_signatures, error, utxos, next_txid, nops, supports>>

NextCommit ==
    \/ \E block \in Blocks(utxos[height + 1], next_txid, MaxTxid + 1 - next_txid, FALSE) :
           open_batches = <<>> /\ AdvanceBlocks(block)
    \/ FlushEnter
    \/ WriteBatchExit

SpecCommit == InitDefault /\ [][NextCommit]_vars

(***************************************************************************)
(* Views used by the properties.                                           *)
(***************************************************************************)
\* assert_flushed: every cache and the pending abandons are empty
assert_flushed ==
    /\ claim_cache = <<>>
    /\ claims_for_name_cache = <<>>
    /\ claims_signed_by_cert_cache = <<>>
    /\ outpoint_to_claim_id_cache = <<>>
    /\ pending_abandons = <<>>

\* a flush has completed and nothing has been staged since
Flushed == error = "none" /\ assert_flushed

\* the ClaimInfo stored on disk for c
StoredInfo(c) == from_serialized(claims_db[c])

\* the claim ids with a live ClaimInfo, read through the cache
LiveIds == {c \in DOMAIN claim_cache \cup DOMAIN claims_db : get_claim_info(Cur, c) # NoInfo}

NameView(n) == get_claims_for_name(Cur, n)

CertKeys == DOMAIN claims_signed_by_cert_cache \cup DOMAIN signatures_db

CertView(k) == get_signed_claim_ids_by_cert_id(Cur, k)

Count(l, c) == Cardinality({i \in 1..Len(l) : l[i] = c})

(***************************************************************************)
(* C1.  Rollback round trip: when a block advanced on a flushed state is   *)
(* rolled back by backup_blocks, the claims, names, signatures and         *)
(* outpoint stores are equal to what they were at the flush before the     *)
(* block, sequence numbers and list orders included.  snapshots[h] holds   *)
(* the four stores as flushed at height h - 1, or <<>> when the block at   *)
(* height h was advanced on unflushed caches.                              *)
(***************************************************************************)
C1_RollbackRoundTrip ==
    [][(height' = height - 1 /\ error' = "none" /\ snapshots[height] # <<>>)
          => <<claims_db', names_db', signatures_db', outpoint_to_claim_id_db'>>
                 = snapshots[height][1]]_vars

(***************************************************************************)
(* C2.  Outpoint/claim agreement: in every flushed state, the outpoint     *)
(* store maps a key to c iff c is in the claims store and its ClaimInfo    *)
(* carries that txid and nout.                                             *)
(***************************************************************************)
C2_OutpointClaimAgreement ==
    Flushed =>
        /\ \A key \in DOMAIN outpoint_to_claim_id_db :
              LET c == outpoint_to_claim_id_db[key]
              IN  c \in DOMAIN claims_db /\ <<StoredInfo(c)[3], StoredInfo(c)[4]>> = key
        /\ \A c \in DOMAIN claims_db :
              LET key == <<StoredInfo(c)[3], StoredInfo(c)[4]>>
              IN  key \in DOMAIN outpoint_to_claim_id_db /\ outpoint_to_claim_id_db[key] = c

\* a flushed state holding a claim that an update moved to a later outpoint,
\* the outpoint that created it having left the store
C2_Witness ==
    /\ Flushed
    /\ \E c \in DOMAIN claims_db :
          /\ claim_id_hash(StoredInfo(c)[3], StoredInfo(c)[4]) # c
          /\ outpoint_to_claim_id_db[<<StoredInfo(c)[3], StoredInfo(c)[4]>>] = c
          /\ \A key \in DOMAIN outpoint_to_claim_id_db : claim_id_hash(key[1], key[2]) # c

(***************************************************************************)
(* C3.  Name index invariant: in every state the processor reaches without *)
(* an exception, every live claim is a key of the name index entry of its  *)
(* ClaimInfo name, and the sequence numbers under every name are exactly   *)
(* 1..k for k claims.                                                      *)
(***************************************************************************)
C3_NameIndexInvariant ==
    error = "none" =>
        /\ \A c \in LiveIds : c \in DOMAIN NameView(get_claim_info(Cur, c)[1])
        /\ \A n \in Names :
              {NameView(n)[c] : c \in DOMAIN NameView(n)} = 1..Cardinality(DOMAIN NameView(n))

(***************************************************************************)
(* C4.  Sequence renumbering: a remove_claim_for_name(n, c) that returns   *)
(* deletes c from the name's map, decrements every sequence above c's and  *)
(* leaves every sequence below it, so the order of the remaining claims is *)
(* kept; a put_claim_for_name of a claim not yet under the name gives it   *)
(* max(existing) + 1 and leaves the others.                                *)
(***************************************************************************)
C4_SequenceRenumbering ==
    [][\A n \in OpNames, c \in OpIds :
          /\ (RemoveClaimForName(n, c) /\ error' = "none") =>
                /\ DOMAIN NameView(n)' = DOMAIN NameView(n) \ {c}
                /\ \A d \in DOMAIN NameView(n)' :
                      /\ NameView(n)[d] > NameView(n)[c] => NameView(n)'[d] = NameView(n)[d] - 1
                      /\ NameView(n)[d] < NameView(n)[c] => NameView(n)'[d] = NameView(n)[d]
                /\ \A d, e \in DOMAIN NameView(n)' :
                      NameView(n)[d] < NameView(n)[e] => NameView(n)'[d] < NameView(n)'[e]
          /\ (PutClaimForName(n, c) /\ c \notin DOMAIN NameView(n)) =>
                /\ DOMAIN NameView(n)' = DOMAIN NameView(n) \cup {c}
                /\ \A d \in DOMAIN NameView(n) :
                      NameView(n)'[d] = NameView(n)[d] /\ NameView(n)'[d] < NameView(n)'[c]
                /\ NameView(n)'[c] = Cardinality(DOMAIN NameView(n)) + 1]_vars

\* {11:1, 21:2} is on disk and 11 has been removed since: 21 moved from 2 to 1
C4_Witness ==
    /\ error = "none"
    /\ 1 \in DOMAIN names_db
    /\ msgpack_loads(names_db[1]) = (11 :> 1 @@ 21 :> 2)
    /\ 1 \in DOMAIN claims_for_name_cache
    /\ claims_for_name_cache[1] = (21 :> 1)

(***************************************************************************)
(* C5.  Signed claims are indexed: in every flushed state, every claim of  *)
(* the claims store whose ClaimInfo has a cert_id k occurs exactly once in *)
(* the signed-claim list of k.                                             *)
(***************************************************************************)
C5_SignedClaimsIndexed ==
    Flushed =>
        \A c \in DOMAIN claims_db :
            StoredInfo(c)[8] # None => Count(CertView(StoredInfo(c)[8]), c) = 1

(***************************************************************************)
(* C6.  Certificate index soundness: in every state the processor reaches  *)
(* without an exception, no signed-claim list holds a claim id twice and   *)
(* every claim id listed under k is a live claim whose cert_id is k.       *)
(***************************************************************************)
C6_CertIndexSound ==
    error = "none" =>
        \A k \in CertKeys :
            \A i \in 1..Len(CertView(k)) :
                /\ Count(CertView(k), CertView(k)[i]) = 1
                /\ get_claim_info(Cur, CertView(k)[i]) # NoInfo
                /\ get_claim_info(Cur, CertView(k)[i])[8] = k

\* claim 21 was signed by certificate 11 and the update in transaction 3 changed
\* the signer to 21: 21 has left the list of 11 and is listed once under 21
C6_Witness ==
    /\ error = "none"
    /\ get_claim_info(Cur, 21) # NoInfo
    /\ get_claim_info(Cur, 21)[3] = 3
    /\ get_claim_info(Cur, 21)[8] = 21
    /\ 11 \in CertKeys
    /\ CertView(11) = <<>>
    /\ CertView(21) = <<21>>

(***************************************************************************)
(* C7.  Staged deletes are observed by reads: while a cache holds a        *)
(* deletion for a key (None for an outpoint, the empty bytes for a claim,  *)
(* the empty map for a name, the empty list for a certificate), a read of  *)
(* that key returns absent, whatever the store holds.                      *)
(***************************************************************************)
C7_StagedDeletesObserved ==
    error = "none" =>
        /\ \A key \in DOMAIN outpoint_to_claim_id_cache :
              outpoint_to_claim_id_cache[key] = None
                  => get_claim_id_from_outpoint(Cur, key[1], key[2]) = None
        /\ \A c \in DOMAIN claim_cache :
              claim_cache[c] = <<>> => get_claim_info(Cur, c) = NoInfo
        /\ \A n \in DOMAIN claims_for_name_cache :
              claims_for_name_cache[n] = <<>> => NameView(n) = <<>>
        /\ \A k \in DOMAIN claims_signed_by_cert_cache :
              claims_signed_by_cert_cache[k] = <<>> => CertView(k) = <<>>

(***************************************************************************)
(* C8.  Read-your-writes for puts: right after a put, and before any       *)
(* flush, the matching get returns what was put: the name's map contains   *)
(* the claim, the outpoint maps to the claim id, the certificate's list    *)
(* contains the claim while every other certificate's list is unchanged,   *)
(* and the claim id maps to the ClaimInfo.                                 *)
(***************************************************************************)
C8_ReadYourWrites ==
    [][/\ \A n \in OpNames, c \in OpIds :
             PutClaimForName(n, c) => c \in DOMAIN NameView(n)'
       /\ \A t \in OpTxids, c \in OpCerts :
             PutClaimIdForOutpoint(t, 0, c) => get_claim_id_from_outpoint(Cur, t, 0)' = c
       /\ \A k \in OpCerts, c \in OpCerts :
             PutClaimIdSignedByCertId(k, c) =>
                 /\ c \in SeqToSet(CertView(k)')
                 /\ \A k2 \in OpCerts \ {k} : CertView(k2)' = CertView(k2)
       /\ \A c \in OpCerts, info \in OpInfos :
             PutClaimInfo(c, info) => get_claim_info(Cur, c)' = info]_vars

\* an outpoint put over an older value that the store still holds, next to a
\* put under a certificate the store does not know
C8_Witness ==
    /\ error = "none"
    /\ \E key \in DOMAIN outpoint_to_claim_id_cache \cap DOMAIN outpoint_to_claim_id_db :
          outpoint_to_claim_id_cache[key] \notin {None, outpoint_to_claim_id_db[key]}
    /\ \E k \in DOMAIN claims_signed_by_cert_cache \ DOMAIN signatures_db :
          claims_signed_by_cert_cache[k] # <<>>

(***************************************************************************)
(* C9.  Cache-then-disk transparency: a batched_flush_claims issued        *)
(* between index put/remove operations (no abandon pending) changes the    *)
(* result of no get: were it to change one, the same operations followed   *)
(* by that get would answer differently with and without the flush.        *)
(***************************************************************************)
C9_FlushTransparent ==
    [][(BatchedFlushClaims /\ error' = "none" /\ pending_abandons = <<>>) =>
          /\ \A t \in OpTxids :
                get_claim_id_from_outpoint(Cur, t, 0)' = get_claim_id_from_outpoint(Cur, t, 0)
          /\ \A n \in Names : NameView(n)' = NameView(n)
          /\ \A k \in OpCerts : CertView(k)' = CertView(k)
          /\ \A c \in OpIds : get_claim_info(Cur, c)' = get_claim_info(Cur, c)]_vars

(***************************************************************************)
(* C10.  After a flush the caches are empty: when batched_flush_claims     *)
(* returns, the four caches and the pending abandons are empty; every      *)
(* value staged (the pending abandons applied to the caches first) is in   *)
(* its store, every staged deletion is out of its store, every key not     *)
(* staged is as it was; and a second flush changes nothing.                *)
(***************************************************************************)
Staged == flush_pending_abandons(Cur, pending_abandons)

PendingFor(pa, c) ==
    IF \E i \in 1..Len(pa) : pa[i][1] = c
    THEN (CHOOSE e \in SeqToSet(pa) : e[1] = c)[2]
    ELSE <<>>

\* C11: abandon_spent(t, i) on an outpoint that neither the outpoint cache nor
\* the outpoint store maps to a claim id returns no claim id and leaves
\* pending_abandons, every cache and every store unchanged; on an outpoint
\* mapped to claim id c it returns c, appends (t, i) to pending_abandons[c]
\* and changes nothing else.
C11_AbandonDetection ==
    [][\A t \in OpTxids :
          AbandonSpent(t, 0) =>
            LET key == <<t, 0>>
                cached == DictGet(outpoint_to_claim_id_cache, key, None)
                stored == DictGet(outpoint_to_claim_id_db, key, None)
                ids == {pending_abandons[i][1] : i \in 1..Len(pending_abandons)}
                frame == /\ UNCHANGED <<claim_cache, claims_for_name_cache,
                                        claims_signed_by_cert_cache,
                                        outpoint_to_claim_id_cache, claims_db, names_db,
                                        signatures_db, outpoint_to_claim_id_db, error>>
            IN  /\ (cached = None /\ stored = None) =>
                      /\ abandon_spent_returns(Cur, t, 0) = None
                      /\ UNCHANGED pending_abandons
                      /\ frame
                /\ \A c \in OpIds :
                      (cached = c \/ (key \notin DOMAIN outpoint_to_claim_id_cache
                                        /\ stored = c)) =>
                        /\ abandon_spent_returns(Cur, t, 0) = c
                        /\ PendingFor(pending_abandons', c)
                              = Append(PendingFor(pending_abandons, c), key)
                        /\ \A d \in (ids \cup OpIds) \ {c} :
                              PendingFor(pending_abandons', d)
                                = PendingFor(pending_abandons, d)
                        /\ {pending_abandons'[i][1] : i \in 1..Len(pending_abandons')}
                              = ids \cup {c}
                        /\ frame]_vars

\* two spent outpoints of the same claim are queued, in order, behind its id
C11_Witness ==
    /\ error = "none"
    /\ PendingFor(pending_abandons, 11) = <<<<1, 0>>, <<2, 0>>>>

(***************************************************************************)
(* C12.  Rejected update: a ClaimUpdate output whose claim id has no       *)
(* ClaimInfo, or whose claim's current outpoint is not among the inputs of *)
(* its transaction, is dropped.  Processing it changes no cache, no        *)
(* pending abandon, adds no undo entry and marks no input as consumed by   *)
(* an update: the locals of advance_claim_txs after the output are those   *)
(* before it, and the inputs of the transaction are then handled as plain  *)
(* spends.  A block of one transaction with that one output changes no     *)
(* cache and no store, queues every input that maps to a claim and         *)
(* journals one entry for each.                                            *)
(***************************************************************************)
\* the locals once the first j outputs of tx have been processed
LocalsAfterOutputs(locals, tx, j) ==
    IF j = 0 THEN locals
    ELSE advance_outputs(locals, [tx EXCEPT !.outputs = SubSeq(@, 1, j)], 0, locals.h)

\* the update output is one the processor rejects in state s
RejectedUpdate(s, tx, output) ==
    /\ output.kind = "ClaimUpdate"
    /\ LET info == get_claim_info(s, output.claim_id)
       IN  info = NoInfo \/ <<info[3], info[4]>> \notin SeqToSet(tx.inputs)

C12_RejectedUpdateDropped ==
    [][(height' = height + 1 /\ next_txid' = next_txid + 1) =>
        \A tx \in ValidTxs(utxos[height + 1], next_txid, TRUE) :
          (/\ utxos' = Append(utxos, UtxoAfter(utxos[height + 1], tx))
           /\ AdvanceBlocks(<<tx>>)) =>
            /\ \A j \in 1..Len(tx.outputs) :
                  \E before \in {LocalsAfterOutputs(
                                     [s |-> Cur, undo_info |-> <<>>, update_inputs |-> {},
                                      h |-> height + 1], tx, j - 1)} :
                      RejectedUpdate(before.s, tx, tx.outputs[j]) =>
                          advance_output(before, tx, j - 1, height + 1) = before
            /\ (Len(tx.outputs) = 1 /\ RejectedUpdate(Cur, tx, tx.outputs[1])) =>
                  LET ins == tx.inputs
                      mapped == {i \in 1..Len(ins) :
                                    get_claim_id_from_outpoint(Cur, ins[i][1], ins[i][2]) # None}
                      undo == msgpack_loads(claim_undo_db'[height + 1])
                  IN  /\ UNCHANGED <<claim_cache, claims_for_name_cache,
                                     claims_signed_by_cert_cache, outpoint_to_claim_id_cache,
                                     claims_db, names_db, signatures_db,
                                     outpoint_to_claim_id_db, error>>
                      /\ Len(undo) = Cardinality(mapped)
                      /\ \A i \in mapped :
                            LET c == get_claim_id_from_outpoint(Cur, ins[i][1], ins[i][2])
                            IN  /\ PendingFor(pending_abandons', c)
                                      = Append(PendingFor(pending_abandons, c), ins[i])
                                /\ \E u \in 1..Len(undo) :
                                      undo[u] = <<c, get_claim_info(Cur, c)>>
                      /\ mapped = {} => UNCHANGED pending_abandons]_vars

\* the block at height 3 is transaction 3 alone; the chain holds its unspent
\* output, an update script for claim 11, while the processor still has claim
\* 11 at the outpoint that created it and has queued claim 21, which
\* transaction 3 spent
C12_Witness ==
    /\ error = "none"
    /\ height = 3
    /\ <<3, 0, 11, 1>> \in utxos[height + 1]
    /\ get_claim_info(Cur, 11) # NoInfo
    /\ get_claim_info(Cur, 11)[3] = 1
    /\ PendingFor(pending_abandons, 21) = <<<<2, 0>>>>

(***************************************************************************)
(* C13.  Support indexing: processing a ClaimSupport output at (txid,      *)
(* nout) with a name, claim id, height and amount appends <<txid, nout,    *)
(* height, amount>> to the support list of that claim under that name and  *)
(* makes the reverse lookup of the outpoint return <<name, claim id>>;     *)
(* removing the support by its outpoint makes the reverse lookup return    *)
(* nothing, removes exactly that tuple from the list and leaves the        *)
(* supports of other claims and names unchanged.                           *)
(***************************************************************************)
C13_SupportIndexing ==
    [][/\ \A name \in Names, claim_id \in OpCerts, txid \in OpTxids :
             AdvanceSupport(name, claim_id, txid, 0) =>
                 /\ SupportsOf(supports', name, claim_id)
                       = Append(SupportsOf(supports, name, claim_id),
                                <<txid, 0, height + 1, 1>>)
                 /\ get_supported_claim_name_id_from_outpoint(supports', txid, 0)
                       = <<name, claim_id>>
       /\ \A txid \in OpTxids :
             (RemoveSupportOutpoint(txid, 0)
                  /\ get_supported_claim_name_id_from_outpoint(supports, txid, 0) # NoSupport) =>
                 LET found == get_supported_claim_name_id_from_outpoint(supports, txid, 0)
                 IN  /\ get_supported_claim_name_id_from_outpoint(supports', txid, 0)
                           = NoSupport
                     /\ SupportsOf(supports', found[1], found[2])
                           = SelectSeq(SupportsOf(supports, found[1], found[2]),
                                       LAMBDA e : <<e[1], e[2]>> # <<txid, 0>>)
                     /\ \A name \in Names, claim_id \in OpCerts :
                           <<name, claim_id>> # found =>
                               SupportsOf(supports', name, claim_id)
                                   = SupportsOf(supports, name, claim_id)
                     /\ \A other \in OpTxids \ {txid} :
                           get_supported_claim_name_id_from_outpoint(supports', other, 0)
                               = get_supported_claim_name_id_from_outpoint(supports, other, 0)]_vars

(***************************************************************************)
(* C14.  Claim state and UTXO state advance together: every commit of the  *)
(* base indexer comes after the claim caches were committed, and at every  *)
(* commit of the base indexer for height h the committed claim stores      *)
(* reflect the claim mutations of exactly the blocks up to h: no mutation  *)
(* of a block up to h is still waiting in a cache, so that flushing the    *)
(* claim caches right after the commit would change no store.              *)
(***************************************************************************)
C14_ClaimAndUtxoAdvanceTogether ==
    [][(db_height' # db_height /\ error' = "none") =>
          /\ db_height' = height'
          /\ Stores(batched_flush_claims(Cur))' = Stores(Cur)']_vars

(***************************************************************************)
(* C15.  Crash safety between flush boundaries: outside a flush the        *)
(* on-disk contents of the claim-side stores, claim_undo included, are     *)
(* those of the last completed flush.  advance_blocks, whose steps are the *)
(* ones that raise the height, is not a flush: it changes no store, and in *)
(* particular writes no undo entry.                                        *)
(***************************************************************************)
C15_CrashSafety ==
    [][height' = height + 1 =>
          UNCHANGED <<claims_db, names_db, signatures_db, outpoint_to_claim_id_db,
                      claim_undo_db>>]_vars

(***************************************************************************)
(* C16.  Reader visibility: a session read (get_claim_info,                *)
(* get_claims_for_name) sees the claim mutations of block h only after the *)
(* flush that contains block h has committed.  A read made when            *)
(* advance_blocks has processed the block, which commits nothing, returns  *)
(* for every key what it returned before the block.                        *)
(***************************************************************************)
C16_ReaderVisibility ==
    [][height' = height + 1 =>
          /\ \A c \in DOMAIN claim_cache' \cup DOMAIN claims_db' :
                get_claim_info(Cur, c)' = get_claim_info(Cur, c)
          /\ \A n \in Names : NameView(n)' = NameView(n)]_vars

(***************************************************************************)
(* C17.  Update-self-spend exclusion.  Within one transaction all outputs  *)
(* are processed before any input.  An input that is the prior outpoint of *)
(* an update accepted in the same transaction causes no abandon of that    *)
(* claim, and the update emits exactly one undo entry <<claim id, old      *)
(* ClaimInfo>>.  Every other input that maps to a claim is queued in       *)
(* pending_abandons and emits one undo entry.  The set of inputs consumed  *)
(* by updates is reset at the start of each transaction: the outcome of a  *)
(* transaction does not depend on the set left by the one before.          *)
(* The block is one transaction; Skip marks an output or input that emits  *)
(* no entry.                                                               *)
(***************************************************************************)
Skip == <<"skip">>

C17_UpdateSelfSpendExclusion ==
    [][(height' = height + 1 /\ next_txid' = next_txid + 1) =>
        \A tx \in ValidTxs(utxos[height + 1], next_txid, TRUE) :
          (/\ utxos' = Append(utxos, UtxoAfter(utxos[height + 1], tx))
           /\ AdvanceBlocks(<<tx>>)) =>
            LET start == [s |-> Cur, undo_info |-> <<>>, update_inputs |-> {},
                          h |-> height + 1]
                n == Len(tx.outputs)
                before(j) == LocalsAfterOutputs(start, tx, j - 1).s
                after == Bind(LocalsAfterOutputs(start, tx, n).s, LAMBDA x : x)
                undo == msgpack_loads(claim_undo_db'[height + 1])
                accepted(j) == /\ tx.outputs[j].kind = "ClaimUpdate"
                               /\ ~RejectedUpdate(before(j), tx, tx.outputs[j])
                old(j) == get_claim_info(before(j), tx.outputs[j].claim_id)
                consumed(i) == \E j \in 1..n :
                                  accepted(j) /\ tx.inputs[i] = <<old(j)[3], old(j)[4]>>
                id(i) == get_claim_id_from_outpoint(after, tx.inputs[i][1], tx.inputs[i][2])
                abandons(i) == ~consumed(i) /\ id(i) # None
                from_outputs ==
                    [j \in 1..n |->
                        IF tx.outputs[j].kind = "NameClaim"
                        THEN <<claim_id_hash(tx.txid, j - 1), NoInfo>>
                        ELSE IF accepted(j) THEN <<tx.outputs[j].claim_id, old(j)>>
                        ELSE Skip]
                from_inputs ==
                    [i \in 1..Len(tx.inputs) |->
                        IF abandons(i) THEN <<id(i), get_claim_info(after, id(i))>> ELSE Skip]
                queued(c) ==
                    [i \in 1..Len(tx.inputs) |->
                        IF abandons(i) /\ id(i) = c THEN tx.inputs[i] ELSE Skip]
                ids == {pending_abandons'[k][1] : k \in 1..Len(pending_abandons')}
                          \cup {id(i) : i \in 1..Len(tx.inputs)}
            IN  /\ undo = SelectSeq(from_outputs \o from_inputs, LAMBDA e : e # Skip)
                /\ \A c \in ids \ {None} :
                      PendingFor(pending_abandons', c)
                        = PendingFor(pending_abandons, c)
                            \o SelectSeq(queued(c), LAMBDA e : e # Skip)
                /\ \A j \in 1..n :
                      accepted(j) =>
                        /\ <<old(j)[3], old(j)[4]>>
                              \notin SeqToSet(PendingFor(pending_abandons',
                                                         tx.outputs[j].claim_id))
                                       \ SeqToSet(PendingFor(pending_abandons,
                                                             tx.outputs[j].claim_id))
                        /\ Cardinality({k \in 1..Len(undo) :
                                           undo[k] = <<tx.outputs[j].claim_id, old(j)>>}) = 1
                /\ \A S \in SUBSET {<<u[1], u[2]>> : u \in utxos[height + 1]} :
                      advance_tx([start EXCEPT !.update_inputs = S], tx) = advance_tx(start, tx)]_vars

\* the block at height 3 is transaction 3 alone, which spent the outpoints of
\* claims 11 and 21 and updated claim 11: claim 11 moved to (3, 0) and is not
\* queued, claim 21 is queued, and the block has one undo entry for each
C17_Witness ==
    /\ error = "none"
    /\ height = 3
    /\ get_claim_info(Cur, 11) # NoInfo
    /\ get_claim_info(Cur, 11)[3] = 3
    /\ PendingFor(pending_abandons, 11) = <<>>
    /\ PendingFor(pending_abandons, 21) = <<<<2, 0>>>>
    /\ Len(msgpack_loads(claim_undo_db[3])) = 2
    /\ msgpack_loads(claim_undo_db[3])[1][1] = 11
    /\ msgpack_loads(claim_undo_db[3])[2][1] = 21

(***************************************************************************)
(* C18.  An accepted ClaimUpdate leaves the name index unchanged: it       *)
(* stages the delete of the old outpoint, maps the new outpoint to the     *)
(* claim, replaces the ClaimInfo and moves the claim between certificate   *)
(* lists, but every name keeps its map of claims to sequence numbers.  The *)
(* block is one transaction whose one output is the accepted update.       *)
(***************************************************************************)
C18_UpdateKeepsNameIndex ==
    [][(height' = height + 1 /\ next_txid' = next_txid + 1) =>
        \A tx \in ValidTxs(utxos[height + 1], next_txid, TRUE) :
          (/\ utxos' = Append(utxos, UtxoAfter(utxos[height + 1], tx))
           /\ Len(tx.outputs) = 1
           /\ tx.outputs[1].kind = "ClaimUpdate"
           /\ ~RejectedUpdate(Cur, tx, tx.outputs[1])
           /\ AdvanceBlocks(<<tx>>)) =>
            LET c == tx.outputs[1].claim_id
                old == get_claim_info(Cur, c)
                new == get_claim_info(Cur, c)'
            IN  /\ UNCHANGED <<claims_for_name_cache, names_db>>
                /\ \A n \in Names : NameView(n)' = NameView(n)
                /\ outpoint_to_claim_id_cache'[<<old[3], old[4]>>] = None
                /\ get_claim_id_from_outpoint(Cur, tx.txid, 0)' = c
                /\ <<new[1], new[2], new[3], new[4], new[7]>>
                      = <<tx.outputs[1].name, tx.outputs[1].value, tx.txid, 0, height + 1>>
                /\ (old[8] # None /\ old[8] # new[8]) => Count(get_signed_claim_ids_by_cert_id(Cur', old[8]), c) = 0
                /\ new[8] # None => Count(get_signed_claim_ids_by_cert_id(Cur', new[8]), c) = 1]_vars

\* claims 11 and 21 were made under name 1 and the block at height 3 updated
\* claim 11, which is now at outpoint (3, 0) and still first under the name
C18_Witness ==
    /\ error = "none"
    /\ height = 3
    /\ get_claim_info(Cur, 11) # NoInfo
    /\ get_claim_info(Cur, 11)[3] = 3
    /\ NameView(1) = (11 :> 1 @@ 21 :> 2)

(***************************************************************************)
(* C19.  Abandon drain at flush: for every claim id c queued in            *)
(* pending_abandons when a flush starts, once the flush has returned c is  *)
(* out of the claims store; c is out of the map of its name, the claims    *)
(* that remain under the name keep their order with sequence numbers       *)
(* closed up, and the name key is deleted when no claim remains; c is out  *)
(* of the list of its certificate; the certificate entry of c itself is    *)
(* deleted; every outpoint queued for c is out of the outpoint store.  The *)
(* stores after the flush are the same for every order in which the        *)
(* pending abandons are drained.                                           *)
(***************************************************************************)
C19_AbandonDrain ==
    [][(Flush /\ error' = "none") =>
          LET pa == pending_abandons
              gone == {pa[k][1] : k \in 1..Len(pa)}
              orders == {q \in [1..Len(pa) -> 1..Len(pa)] :
                            \A i, j \in 1..Len(pa) : i # j => q[i] # q[j]}
          IN  /\ \A k \in 1..Len(pa) :
                    LET c == pa[k][1]
                        info == get_claim_info(Cur, c)
                    IN  /\ c \notin DOMAIN claims_db'
                        /\ c \notin DOMAIN get_claims_for_name(Cur', info[1])
                        /\ info[8] # None =>
                              Count(get_signed_claim_ids_by_cert_id(Cur', info[8]), c) = 0
                        /\ c \notin DOMAIN signatures_db'
                        /\ \A i \in 1..Len(pa[k][2]) :
                              pa[k][2][i] \notin DOMAIN outpoint_to_claim_id_db'
              /\ \A n \in Names :
                    (DOMAIN NameView(n) \cap gone # {}) =>
                        /\ DOMAIN NameView(n)' = DOMAIN NameView(n) \ gone
                        /\ \A d \in DOMAIN NameView(n)' :
                              NameView(n)'[d]
                                = NameView(n)[d]
                                  - Cardinality({a \in DOMAIN NameView(n) \cap gone :
                                                    NameView(n)[a] < NameView(n)[d]})
                        /\ DOMAIN NameView(n) \subseteq gone => n \notin DOMAIN names_db'
              /\ \A q \in orders :
                    Stores(batched_flush_claims(
                               [Cur EXCEPT !.pending_abandons = [i \in 1..Len(pa) |-> pa[q[i]]]]))
                        = Stores(Cur)']_vars

\* claim 11 and claim 21, which 11 signed, were both spent by the block at
\* height 3 and the flush has drained the two: the claims, names, signatures
\* and outpoint stores are empty again
C19_Witness ==
    /\ Flushed
    /\ height = 3
    /\ Len(msgpack_loads(claim_undo_db[3])) = 2
    /\ msgpack_loads(claim_undo_db[3])[1][1] = 11
    /\ msgpack_loads(claim_undo_db[3])[2][1] = 21
    /\ msgpack_loads(claim_undo_db[3])[2][2] # NoInfo
    /\ msgpack_loads(claim_undo_db[3])[2][2][8] = 11
    /\ DOMAIN claims_db = {}
    /\ DOMAIN names_db = {}
    /\ DOMAIN signatures_db = {}
    /\ DOMAIN outpoint_to_claim_id_db = {}

(***************************************************************************)
(* C20.  Undo journal order.  The undo list of a block holds one entry per *)
(* state-changing action, in the order the actions were applied: <<claim   *)
(* id, null>> for a name claim, <<claim id, old ClaimInfo>> for an         *)
(* accepted update, <<claim id, ClaimInfo at abandon time>> for an         *)
(* abandon; the list of a block of two transactions is the list of the     *)
(* first followed by the list of the second; the list is stored under the  *)
(* height of the block.  A rollback replays the list of each height from   *)
(* its last entry to its first.                                            *)
(***************************************************************************)
\* s after the entries k, k - 1, .., 1 of undo have been undone, in that order
RECURSIVE ReplayReversed(_, _, _)
ReplayReversed(self, undo, k) ==
    Bind(self, LAMBDA s :
        IF k = 0 \/ s.error # "none" THEN s
        ELSE ReplayReversed(backup_from_undo_info(s, undo[k][1], undo[k][2]), undo, k - 1))

\* s after the blocks at heights h, h - 1, .., h - n + 1 have been undone
RECURSIVE ReplayHeights(_, _, _)
ReplayHeights(self, h, n) ==
    Bind(self, LAMBDA s :
        IF n = 0 \/ s.error # "none" THEN s
        ELSE IF h \notin DOMAIN claim_undo_db THEN Raise(s, "TypeError")
        ELSE ReplayHeights(ReplayReversed(s, msgpack_loads(claim_undo_db[h]),
                                          Len(msgpack_loads(claim_undo_db[h]))),
                           h - 1, n - 1))

C20_UndoJournalOrder ==
    [][/\ (height' = height + 1 /\ next_txid' = next_txid + 1) =>
           \A tx \in ValidTxs(utxos[height + 1], next_txid, TRUE) :
             (/\ utxos' = Append(utxos, UtxoAfter(utxos[height + 1], tx))
              /\ AdvanceBlocks(<<tx>>)) =>
               LET start == [s |-> Cur, undo_info |-> <<>>, update_inputs |-> {},
                             h |-> height + 1]
                   n == Len(tx.outputs)
                   before(j) == LocalsAfterOutputs(start, tx, j - 1).s
                   after == Bind(LocalsAfterOutputs(start, tx, n).s, LAMBDA x : x)
                   undo == msgpack_loads(claim_undo_db'[height + 1])
                   claimed == {j \in 1..n : tx.outputs[j].kind = "NameClaim"}
                   updated == {j \in 1..n : /\ tx.outputs[j].kind = "ClaimUpdate"
                                            /\ ~RejectedUpdate(before(j), tx, tx.outputs[j])}
                   spent_by_update ==
                       {<<get_claim_info(before(j), tx.outputs[j].claim_id)[3],
                          get_claim_info(before(j), tx.outputs[j].claim_id)[4]>> : j \in updated}
                   abandoned == {i \in 1..Len(tx.inputs) :
                                    /\ tx.inputs[i] \notin spent_by_update
                                    /\ get_claim_id_from_outpoint(after, tx.inputs[i][1],
                                                                  tx.inputs[i][2]) # None}
                   \* the position in the list of the entry of output j, of input i
                   of_output(j) == Cardinality({m \in claimed \cup updated : m <= j})
                   of_input(i) == Cardinality(claimed \cup updated)
                                    + Cardinality({m \in abandoned : m <= i})
               IN  /\ DOMAIN claim_undo_db' = DOMAIN claim_undo_db \cup {height + 1}
                   /\ \A h \in DOMAIN claim_undo_db \ {height + 1} :
                         claim_undo_db'[h] = claim_undo_db[h]
                   /\ Len(undo) = Cardinality(claimed) + Cardinality(updated)
                                     + Cardinality(abandoned)
                   /\ \A j \in claimed :
                         undo[of_output(j)] = <<claim_id_hash(tx.txid, j - 1), NoInfo>>
                   /\ \A j \in updated :
                         undo[of_output(j)]
                           = <<tx.outputs[j].claim_id,
                               get_claim_info(before(j), tx.outputs[j].claim_id)>>
                   /\ \A i \in abandoned :
                         \E c \in {get_claim_id_from_outpoint(after, tx.inputs[i][1],
                                                              tx.inputs[i][2])} :
                             undo[of_input(i)] = <<c, get_claim_info(after, c)>>
                   /\ next_txid' <= MaxTxid =>
                         \A tx2 \in ValidTxs(UtxoAfter(utxos[height + 1], tx),
                                             next_txid + 1, TRUE) :
                             advance_claim_txs(Cur, <<tx, tx2>>, height + 1).undo_info
                               = undo \o advance_claim_txs(Cur', <<tx2>>, height + 1).undo_info
       /\ \A n \in 1..height :
             (height' = height - n /\ BackupBlocks(n) /\ error' = "none") =>
                 Cur' = batched_flush_claims(
                            ReplayHeights(batched_flush_claims(Cur), height, n))]_vars

\* the block at height 1, whose undo list holds the claim of 11 and then its
\* abandon, has been rolled back
C20_Witness ==
    /\ error = "none"
    /\ height = 0
    /\ 1 \in DOMAIN claim_undo_db
    /\ Len(msgpack_loads(claim_undo_db[1])) = 2
    /\ msgpack_loads(claim_undo_db[1])[1] = <<11, NoInfo>>
    /\ msgpack_loads(claim_undo_db[1])[2][1] = 11
    /\ msgpack_loads(claim_undo_db[1])[2][2] # NoInfo
    /\ next_txid = 3

(***************************************************************************)
(* C21.  Rollback inconsistency is fatal.  When backup_blocks comes to a   *)
(* height with no entry in claim_undo_db, or replays an entry <<claim id,  *)
(* null>> while no ClaimInfo exists for the claim id, it raises: the       *)
(* processor is left exactly as it was when the entry was reached, no      *)
(* later entry is replayed, and the base indexer has backed up only the    *)
(* blocks above that height.                                               *)
(***************************************************************************)
C21_RollbackInconsistencyFatal ==
    [][(error = "none" /\ (height' < height \/ error' # "none")) =>
        \A n \in 1..height :
          BackupBlocks(n) =>
            \A s0 \in {batched_flush_claims(Cur)} :
              s0.error = "none" =>
                \A m \in 1..n :
                  \A b \in {ReplayHeights(s0, height, m - 1)} :
                    b.error = "none" =>
                      LET h == height - m + 1
                          fatal(at) == /\ error' # "none"
                                       /\ Cur' = Raise(at, error')
                                       /\ height' = h
                                       /\ utxos' = SubSeq(utxos, 1, h + 1)
                                       /\ db_height' = db_height
                      IN  IF h \notin DOMAIN claim_undo_db
                          THEN fatal(b)
                          ELSE \A undo \in {msgpack_loads(claim_undo_db[h])} :
                                 \A k \in 1..Len(undo) :
                                   \A sk \in {ReplayReversed(b, SubSeq(undo, k + 1, Len(undo)),
                                                              Len(undo) - k)} :
                                     (/\ sk.error = "none"
                                      /\ undo[k][2] = NoInfo
                                      /\ get_claim_info(sk, undo[k][1]) = NoInfo) => fatal(sk)]_vars

\* a rollback has raised on the block at the tip, whose undo list names a
\* claim that was claimed in the block and that no store holds
C21_Witness ==
    /\ error = "Exception"
    /\ height \in DOMAIN claim_undo_db
    /\ \E k \in 1..Len(msgpack_loads(claim_undo_db[height])) :
           /\ msgpack_loads(claim_undo_db[height])[k][2] = NoInfo
           /\ msgpack_loads(claim_undo_db[height])[k][1] \notin DOMAIN claims_db

(***************************************************************************)
(* C22.  Undo journal consumption.  When backup_blocks returns from the    *)
(* rollback of the blocks at heights height - n + 1 .. height, claim_undo  *)
(* holds no entry under any of these heights, so that every key of the     *)
(* journal is at or below the tip.                                         *)
(***************************************************************************)
C22_UndoJournalConsumed ==
    [][(height' < height /\ error' = "none") =>
        \A n \in {height - height'} :
            BackupBlocks(n) =>
                /\ \A h \in (height - n + 1)..height : h \notin DOMAIN claim_undo_db'
                /\ \A h \in DOMAIN claim_undo_db' : h <= height']_vars

(***************************************************************************)
(* C23.  Store commit order.  Within every flush the write batches commit  *)
(* in the order claims, names, signatures, outpoints: when the batch of a  *)
(* store commits, no batch of a store before it in that order is still     *)
(* open.                                                                   *)
(***************************************************************************)
C23_StoreCommitOrder ==
    [][Len(open_batches') < Len(open_batches) =>
        LET order == <<"claims", "names", "signatures", "outpoint_claim_id">>
            committing == open_batches[Len(open_batches)].store
            still_open == {open_batches'[i].store : i \in 1..Len(open_batches')}
        IN  \A i, j \in 1..4 :
                (i < j /\ order[j] = committing) => order[i] \notin still_open]_vars

(***************************************************************************)
(* C24.  flush never dereferences a missing claim.  In every state reached *)
(* by block advances, rollbacks and flushes, each claim id queued in       *)
(* pending_abandons has a ClaimInfo readable through the cache and is a    *)
(* key of the name index under the name of that ClaimInfo, and the abandon *)
(* drain of flush_claims completes without an error.                       *)
(***************************************************************************)
C24_AbandonDrainTotal ==
    error = "none" =>
        /\ \A i \in 1..Len(pending_abandons) :
              \A info \in {get_claim_info(Cur, pending_abandons[i][1])} :
                  /\ info # NoInfo
                  /\ pending_abandons[i][1] \in DOMAIN get_claims_for_name(Cur, info[1])
        /\ flush_pending_abandons(Cur, pending_abandons).error = "none"

(***************************************************************************)
(* C25.  Rollback re-links a restored claim under its recorded             *)
(* certificate.  Whenever a rollback replays an undo entry <<claim id,     *)
(* prior ClaimInfo>> whose ClaimInfo has the certificate k, k not null,    *)
(* backup_from_undo_info leaves the claim id as the last element of the    *)
(* signed-claim list of k, adds it to the list of no other key, and puts   *)
(* no list under the null key, whether or not the certificate claim is     *)
(* known at that point of the replay.                                      *)
(***************************************************************************)
C25_RollbackRelinksCertificate ==
    [][(error = "none" /\ (height' < height \/ error' # "none")) =>
        \A n \in 1..height :
          BackupBlocks(n) =>
            \A s0 \in {batched_flush_claims(Cur)} :
              s0.error = "none" =>
                \A m \in 1..n :
                  \A b \in {ReplayHeights(s0, height, m - 1)} :
                    (b.error = "none" /\ height - m + 1 \in DOMAIN claim_undo_db) =>
                      \A undo \in {msgpack_loads(claim_undo_db[height - m + 1])} :
                        \A k \in 1..Len(undo) :
                          \A sk \in {ReplayReversed(b, SubSeq(undo, k + 1, Len(undo)),
                                                     Len(undo) - k)} :
                            (/\ sk.error = "none"
                             /\ undo[k][2] # NoInfo
                             /\ undo[k][2][8] # None) =>
                               \A after \in {backup_from_undo_info(sk, undo[k][1], undo[k][2])} :
                                 LET claim_id == undo[k][1]
                                     cert == undo[k][2][8]
                                     signed == get_signed_claim_ids_by_cert_id(after, cert)
                                     keys == DOMAIN after.claims_signed_by_cert_cache
                                               \cup DOMAIN after.signatures_db
                                 IN  /\ signed # <<>>
                                     /\ signed[Len(signed)] = claim_id
                                     /\ None \notin keys
                                     /\ \A k2 \in keys \ {cert} :
                                           Count(get_signed_claim_ids_by_cert_id(after, k2),
                                                 claim_id)
                                             <= Count(get_signed_claim_ids_by_cert_id(sk, k2),
                                                      claim_id)]_vars

====
